---- MODULE Spec2Model ----
(***************************************************************************)
(* A model of fix-delimited-file: the anchor columns derived from the      *)
(* column metadata (src/anchor-column.ts), the line parser that aligns     *)
(* the fields of a line, or of several merged lines, against them          *)
(* (src/line-parser.ts), and the column statistics with their cache file   *)
(* (src/file-metadata.ts).                                                 *)
(*                                                                         *)
(* A string is a sequence of one-character strings, so that splitting a    *)
(* line on the delimiter and joining values with the merge separator are   *)
(* computed and not assumed.  Array indices are 0-based, as in the source. *)
(***************************************************************************)
EXTENDS Integers, Sequences, FiniteSets, TLC

VARIABLES
    columns,   \* FileMetadata.columns: the ColumnMetadata of the parser's file
    lines,     \* LineParser.#lines: the pending lines
    before,    \* history: #lines when the latest parse call started
    fed,       \* history: every line passed to parse, in call order
    outs,      \* history: the outcome of every parse call, in call order
    second,    \* a second LineParser built over the same metadata: its
               \* #lines, the lines passed to it and the outcomes of its calls
    returned,  \* the list returned by getAnchorColumns: <<>> before the call
    col,       \* one ColumnMetadata object
    seen,      \* history: the values passed to col.add
    cards,     \* history: the maxCardinality arguments passed to col.add
    obj,       \* a parsed JSON object handed to ColumnMetadata.fromJson
    loaded,    \* the outcome of fromJson(obj): <<>> before the call
    input,     \* the CreateInput of FileMetadata.create and the file it names
    cacheFile, \* the file at metadataFilePath: <<>> while it does not exist
    reads,     \* history: how many times the input file's lines were read
    created    \* history: the outcome of every create call, in call order

parserVars == <<columns, lines, before, fed, outs, second>>
metadataVars == <<col, seen, cards, obj, loaded, input, cacheFile, reads,
                  created>>
vars == <<parserVars, returned, metadataVars>>

----------------------------------------------------------------------------
(* Bounds of the model *)

\* the longest column list of the alignment specification
MaxCols == 3
\* the longest column list given to getAnchorColumns
MaxAnchorCols == 4
\* the largest maxCardinality argument
MaxCardinality == 2
\* the most lines of the input file of FileMetadata.create
MaxFileLines == 3
\* the most create calls made on one input
MaxCreates == 2
\* the longest input file of the cache specification, in lines
MaxCachedLines == 2
\* the most fields of one line in the alignment specification
MaxFields == 4
\* the most fields of one line in the parser specification
MaxLineFields == 2
\* the most parse calls made on one parser
MaxCalls == 3
\* the most parse calls made on two parsers together
MaxPairCalls == 3

----------------------------------------------------------------------------
(* Values *)

\* a `null` result of #tryParseColumns / ParseOutput.columns
Null == << <<"null">> >>
\* the outcome of dereferencing `undefined`
TypeError == << <<"TypeError">> >>
\* an array element that was never written, or an index past the end
Undefined == <<"undefined">>

Delimiter == "|"
MergeSeparator == <<" ">>

\* String(v) as `+=` coerces its left operand
ToStr(v) ==
    IF v = Undefined
    THEN <<"u", "n", "d", "e", "f", "i", "n", "e", "d">>
    ELSE v

\* cols[i], 0-based; undefined past the end
At(cols, i) == IF i >= 0 /\ i < Len(cols) THEN cols[i + 1] ELSE Undefined

\* String.prototype.split with a one-character delimiter
RECURSIVE split(_, _)
split(s, d) ==
    IF \E i \in 1..Len(s) : s[i] = d
    THEN LET i == CHOOSE k \in 1..Len(s) :
                      s[k] = d /\ \A j \in 1..(k - 1) : s[j] # d
         IN <<SubSeq(s, 1, i - 1)>> \o split(SubSeq(s, i + 1, Len(s)), d)
    ELSE <<s>>

\* Array.prototype.join
RECURSIVE join(_, _)
join(fields, sep) ==
    IF fields = <<>> THEN <<>>
    ELSE IF Len(fields) = 1 THEN fields[1]
    ELSE fields[1] \o sep \o join(Tail(fields), sep)

\* Array.prototype.slice(start)
slice(arr, start) == SubSeq(arr, start + 1, Len(arr))

\* Array.prototype.flatMap(x => x.split(delimiter))
RECURSIVE flatMapSplit(_)
flatMapSplit(arr) ==
    IF arr = <<>> THEN <<>>
    ELSE split(Head(arr), Delimiter) \o flatMapSplit(Tail(arr))

----------------------------------------------------------------------------
(* Column metadata and anchor columns *)

\* the test factory: ColumnMetadata.fromJson({maxLength: 0, name: "", ...})
createColumnMetadata(unbounded, uniqueValues) ==
    [maxLength |-> 0, name |-> <<>>, unbounded |-> unbounded,
     uniqueValues |-> uniqueValues]

\* getAnchorColumns' loop with one step done wrongly
RECURSIVE anchorLoopWith(_, _, _, _, _)
anchorLoopWith(cs, i, previousColumns, result, fault) ==
    IF i < Len(cs)
    THEN IF ~cs[i + 1].unbounded
         THEN anchorLoopWith(cs, i + 1,
                  IF fault = "no reset" THEN previousColumns
                  ELSE IF fault = "bounded counted" THEN previousColumns + 1
                  ELSE 0,
                  Append(result, [previousColumns |-> previousColumns,
                                  metadata |-> <<cs[i + 1]>>]),
                  fault)
         ELSE IF i + 1 = Len(cs)
              THEN anchorLoopWith(cs, i + 1, previousColumns + 1,
                       Append(result,
                              [previousColumns |->
                                   IF fault = "last not counted"
                                   THEN previousColumns
                                   ELSE IF fault = "last counted twice"
                                   THEN previousColumns + 2
                                   ELSE previousColumns + 1,
                               metadata |->
                                   IF fault = "last with metadata"
                                   THEN <<cs[i + 1]>> ELSE <<>>]),
                       fault)
              ELSE anchorLoopWith(cs, i + 1, previousColumns + 1, result, fault)
    ELSE result

anchorLoop_LastNotCounted(cs, i, previousColumns, result) ==
    anchorLoopWith(cs, i, previousColumns, result, "last not counted")
anchorLoop_BoundedCounted(cs, i, previousColumns, result) ==
    anchorLoopWith(cs, i, previousColumns, result, "bounded counted")
anchorLoop_NoReset(cs, i, previousColumns, result) ==
    anchorLoopWith(cs, i, previousColumns, result, "no reset")
anchorLoop_LastWithMetadata(cs, i, previousColumns, result) ==
    anchorLoopWith(cs, i, previousColumns, result, "last with metadata")
anchorLoop_LastCountedTwice(cs, i, previousColumns, result) ==
    anchorLoopWith(cs, i, previousColumns, result, "last counted twice")

\* getAnchorColumns' loop; metadata is <<>> when omitted, <<column>> otherwise
RECURSIVE anchorLoop(_, _, _, _)
anchorLoop(cs, i, previousColumns, result) ==
    IF i < Len(cs)
    THEN IF ~cs[i + 1].unbounded
         THEN anchorLoop(cs, i + 1, 0,
                  Append(result, [previousColumns |-> previousColumns,
                                  metadata |-> <<cs[i + 1]>>]))
         ELSE IF i + 1 = Len(cs)
              THEN anchorLoop(cs, i + 1, previousColumns + 1,
                       Append(result, [previousColumns |-> previousColumns + 1,
                                       metadata |-> <<>>]))
              ELSE anchorLoop(cs, i + 1, previousColumns + 1, result)
    ELSE result

getAnchorColumns(cs) == anchorLoop(cs, 0, 0, <<>>)

\* FileMetadata.anchorColumns, as the parser reads it
anchorColumns == getAnchorColumns(columns)

----------------------------------------------------------------------------
(* LineParser.#tryParseColumns *)

\* `if (anchor.metadata)`
hasMetadata_Always(anchor) == TRUE
hasMetadata(anchor) == anchor.metadata # <<>>

\* the previous columns stored by the loop `result.push(cols[colIndex++])`
previousValues_OffByOne(cols, colIndex, n) ==
    [i \in 1..n |-> At(cols, colIndex + i)]
previousValues(cols, colIndex, n) ==
    [i \in 1..n |-> At(cols, colIndex + i - 1)]

\* a scan that binds the anchor to the last member field, not the first
scanAnchor_LastMatch(anchor, cols, colIndex, extraColIndex) ==
    IF anchor.metadata = <<>> THEN -2
    ELSE IF anchor.metadata[1].unbounded THEN extraColIndex
    ELSE LET M == {e \in extraColIndex..(Len(cols) - 1 - colIndex) :
                      At(cols, colIndex + e) \in anchor.metadata[1].uniqueValues}
         IN  IF M = {} THEN -1
             ELSE CHOOSE e \in M : \A f \in M : f <= e

\* the scan `while (!unbounded && !uniqueValues.has(cols[colIndex + extraColIndex]))`:
\* the number of extra columns, -1 for `return null`, -2 when anchor.metadata
\* is dereferenced while undefined
RECURSIVE scanAnchor(_, _, _, _)
scanAnchor(anchor, cols, colIndex, extraColIndex) ==
    IF anchor.metadata = <<>> THEN -2
    ELSE IF /\ ~anchor.metadata[1].unbounded
            /\ At(cols, colIndex + extraColIndex)
                   \notin anchor.metadata[1].uniqueValues
    THEN IF extraColIndex + 1 + colIndex >= Len(cols)
         THEN -1
         ELSE scanAnchor(anchor, cols, colIndex, extraColIndex + 1)
    ELSE extraColIndex

\* `if (extraColIndex > 0 && anchor.previousColumns === 0) return null`
noPlaceForExtra_Never(extraColIndex, previousColumns) == FALSE
noPlaceForExtra_ManyOnly(extraColIndex, previousColumns) ==
    extraColIndex > 1 /\ previousColumns = 0
noPlaceForExtra(extraColIndex, previousColumns) ==
    extraColIndex > 0 /\ previousColumns = 0

\* `result[result.length - 1] += mergeSeparator + value`
appendToLast_NoSeparator(result, value) ==
    IF result = <<>> THEN result
    ELSE [result EXCEPT ![Len(result)] = ToStr(@) \o value]
appendToLast(result, value) ==
    IF result = <<>> THEN result
    ELSE [result EXCEPT ![Len(result)] = ToStr(@) \o MergeSeparator \o value]

\* the loop appending cols[from .. from + n - 1] to the latest column
RECURSIVE appendExtra(_, _, _, _)
appendExtra(result, cols, from, n) ==
    IF n = 0 THEN result
    ELSE appendExtra(appendToLast(result, At(cols, from)), cols, from + 1, n - 1)

\* `result[index] = value`: an index past the end leaves holes
setAt(result, index, value) ==
    IF index < Len(result)
    THEN [result EXCEPT ![index + 1] = value]
    ELSE result \o [k \in 1..(index - Len(result)) |-> Undefined] \o <<value>>

\* `for (const anchor of anchorColumns) { ... }` and the final check
RECURSIVE anchorsLoop(_, _, _, _)
anchorsLoop(anchors, cols, colIndex, result) ==
    IF anchors = <<>>
    THEN IF colIndex < Len(cols) THEN Null ELSE result
    ELSE
    LET anchor == Head(anchors)
        prev == anchor.previousColumns
    IN  IF colIndex + prev > Len(cols) THEN Null
        ELSE
        LET pushed == result \o previousValues(cols, colIndex, prev)
            ci == colIndex + prev
        IN  IF hasMetadata(anchor)
            THEN LET extra == scanAnchor(anchor, cols, ci, 0)
                 IN  IF extra = -2 THEN TypeError
                     ELSE IF extra = -1 THEN Null
                     ELSE IF noPlaceForExtra(extra, prev) THEN Null
                     ELSE anchorsLoop(Tail(anchors), cols, ci + extra + 1,
                              setAt(appendExtra(pushed, cols, ci, extra),
                                    ci, At(cols, ci + extra)))
            ELSE anchorsLoop(Tail(anchors), cols,
                     IF ci < Len(cols) THEN Len(cols) ELSE ci,
                     appendExtra(pushed, cols, ci,
                                 IF ci < Len(cols) THEN Len(cols) - ci ELSE 0))

tryParseColumns(cols) ==
    IF Len(cols) < Len(columns) THEN Null
    ELSE anchorsLoop(anchorColumns, cols, 0, <<>>)

----------------------------------------------------------------------------
(* LineParser.parse *)

\* what a call leaves behind: its result and the new #lines
Returned(cols, unprocessedLines, newLines) ==
    [threw |-> FALSE, columns |-> cols, unprocessedLines |-> unprocessedLines,
     lines |-> newLines]
Thrown(newLines) ==
    [threw |-> TRUE, columns |-> Null, unprocessedLines |-> <<>>,
     lines |-> newLines]

\* `this.#lines.push(line)`
push_Nothing(pending, line) == pending
push(pending, line) == Append(pending, line)

\* the unprocessed lines of a first-attempt success: `this.#lines`
discarded_None(pending) == <<>>
discarded(pending) == pending

\* the columns of the merged lines: slice(skipCount).flatMap(split)
mergedCols_AsText(pending, skipCount) ==
    split(join(slice(pending, skipCount), <<>>), Delimiter)
mergedCols(pending, skipCount) == flatMapSplit(slice(pending, skipCount))

\* the retry loop trying the largest skip count first
RECURSIVE retryLoop_Descending(_, _)
retryLoop_Descending(pending, tried) ==
    IF tried < Len(pending)
    THEN LET skipCount == Len(pending) - 1 - tried
             cols == tryParseColumns(mergedCols(pending, skipCount))
         IN  IF cols = TypeError THEN Thrown(pending)
             ELSE IF cols # Null
             THEN Returned(cols, SubSeq(pending, 1, skipCount), <<>>)
             ELSE retryLoop_Descending(pending, tried + 1)
    ELSE Returned(Null, <<>>, pending)

\* the retry loop with its success branch done wrongly
RECURSIVE retryLoopWith(_, _, _)
retryLoopWith(pending, skipCount, fault) ==
    IF skipCount < Len(pending)
    THEN LET cols == tryParseColumns(mergedCols(pending, skipCount))
         IN  IF cols = TypeError THEN Thrown(pending)
             ELSE IF cols # Null
             THEN Returned(cols,
                           IF fault = "skipped dropped" THEN <<>>
                           ELSE IF fault = "skip off by one"
                           THEN SubSeq(pending, 1, skipCount + 1)
                           ELSE SubSeq(pending, 1, skipCount),
                           IF fault = "not cleared" THEN pending ELSE <<>>)
             ELSE retryLoopWith(pending, skipCount + 1, fault)
    ELSE Returned(Null, <<>>, pending)

retryLoop_SkippedDropped(pending, skipCount) ==
    retryLoopWith(pending, skipCount, "skipped dropped")
retryLoop_NotCleared(pending, skipCount) ==
    retryLoopWith(pending, skipCount, "not cleared")
retryLoop_SkipOffByOne(pending, skipCount) ==
    retryLoopWith(pending, skipCount, "skip off by one")

\* `for (let skipCount = 0; skipCount < this.#lines.length; ++skipCount)`
RECURSIVE retryLoop(_, _)
retryLoop(pending, skipCount) ==
    IF skipCount < Len(pending)
    THEN LET cols == tryParseColumns(mergedCols(pending, skipCount))
         IN  IF cols = TypeError THEN Thrown(pending)
             ELSE IF cols # Null
             THEN Returned(cols, SubSeq(pending, 1, skipCount), <<>>)
             ELSE retryLoop(pending, skipCount + 1)
    ELSE Returned(Null, <<>>, pending)

\* LineParser.parse(line) on the pending lines of the instance
parse(pending, line) ==
    LET cols == tryParseColumns(split(line, Delimiter))
    IN  IF cols = TypeError THEN Thrown(pending)
        ELSE IF cols # Null
        THEN Returned(cols, discarded(pending), <<>>)
        ELSE LET kept == push(pending, line)
             IN  IF Len(kept) > 1
                 THEN retryLoop(kept, 0)
                 ELSE Returned(Null, <<>>, kept)

----------------------------------------------------------------------------
(* Inputs *)

Unbounded == createColumnMetadata(TRUE, {})
BoundedA == createColumnMetadata(FALSE, {<<"a">>})
BoundedB == createColumnMetadata(FALSE, {<<"b">>})

ColumnKinds == {Unbounded, BoundedA, BoundedB}

SeqsUpTo(S, lo, hi) == UNION {[1..n -> S] : n \in lo..hi}

\* the column lists of the alignment specification
AllSchemas == SeqsUpTo(ColumnKinds, 0, MaxCols)

\* the column lists of the parser specification
ParserSchemas ==
    { <<>>,
      <<Unbounded, Unbounded>>,
      <<BoundedA, BoundedA>>,
      <<Unbounded, BoundedA>>,
      <<BoundedA, Unbounded>>,
      <<Unbounded, BoundedA, Unbounded>>,
      <<Unbounded, BoundedA, BoundedA>>,
      <<BoundedA, BoundedA, Unbounded>> }

FieldValues == {<<"a">>, <<"b">>, <<"x">>}
LineValues == {<<"a">>, <<"x">>}

\* the lines made of the given field values
LinesOf(values, maxFields) ==
    {join(f, <<Delimiter>>) : f \in SeqsUpTo(values, 1, maxFields)}

AlignLines == LinesOf(FieldValues, MaxFields)
ParserLines == LinesOf(LineValues, MaxLineFields)

----------------------------------------------------------------------------
(* Column statistics: ColumnMetadata *)

\* new ColumnMetadata(name); #uniqueValues is a Set, here a set
newColumnMetadata(name) ==
    [maxLength |-> 0, name |-> name, unbounded |-> FALSE, uniqueValues |-> {}]

\* add's test of #unbounded
latched_Never(column) == FALSE
latched(column) == column.unbounded

\* add's test of the set's size against maxCardinality
exceeds_OrEqual(size, maxCardinality) == size >= maxCardinality
exceeds(size, maxCardinality) == size > maxCardinality

\* an add that leaves an unbounded column wholly as it is
add_NothingOnceUnbounded(column, value, maxCardinality) ==
    LET maxLength == IF column.maxLength < Len(value)
                     THEN Len(value) ELSE column.maxLength
        added == column.uniqueValues \cup {value}
    IN  IF column.unbounded
        THEN column
        ELSE IF Cardinality(added) > maxCardinality
             THEN [column EXCEPT !.maxLength = maxLength,
                                 !.unbounded = TRUE,
                                 !.uniqueValues = {}]
             ELSE [column EXCEPT !.maxLength = maxLength,
                                 !.uniqueValues = added]

\* ColumnMetadata.add(value, maxCardinality)
add(column, value, maxCardinality) ==
    LET maxLength == IF column.maxLength < Len(value)
                     THEN Len(value) ELSE column.maxLength
        added == column.uniqueValues \cup {value}
    IN  IF latched(column)
        THEN [column EXCEPT !.maxLength = maxLength]
        ELSE IF exceeds(Cardinality(added), maxCardinality)
             THEN [column EXCEPT !.maxLength = maxLength,
                                 !.unbounded = TRUE,
                                 !.uniqueValues = {}]
             ELSE [column EXCEPT !.maxLength = maxLength,
                                 !.uniqueValues = added]

----------------------------------------------------------------------------
(* JSON values, each tagged with its kind t and carrying its number n,     *)
(* string s, boolean b or array elements a; an absent property reads as    *)
(* undefined                                                               *)

JValue(t, n, s, b, a) == [t |-> t, n |-> n, s |-> s, b |-> b, a |-> a]
JNumber(n) == JValue("number", n, <<>>, FALSE, <<>>)
JString(str) == JValue("string", 0, str, FALSE, <<>>)
JBoolean(b) == JValue("boolean", 0, <<>>, b, <<>>)
JArray(arr) == JValue("array", 0, <<>>, FALSE, arr)
JNull == JValue("null", 0, <<>>, FALSE, <<>>)
JAbsent == JValue("undefined", 0, <<>>, FALSE, <<>>)

\* the typeof operator and Array.isArray
typeof(j) == IF j.t \in {"array", "null"} THEN "object" ELSE j.t
isArray(j) == j.t = "array"

\* the cardinality getter: number | null
cardinality_SizeOnly(column) == JNumber(Cardinality(column.uniqueValues))
cardinality(column) ==
    IF column.unbounded THEN JNull
    ELSE JNumber(Cardinality(column.uniqueValues))

\* [...this.uniqueValues]
spread_Nothing(values) == <<>>
RECURSIVE spread(_)
spread(values) ==
    IF values = {} THEN <<>>
    ELSE LET x == CHOOSE x \in values : TRUE
         IN <<JString(x)>> \o spread(values \ {x})

\* ColumnMetadata.toJSON()
toJSON(column) ==
    [cardinality |-> cardinality(column),
     maxLength |-> JNumber(column.maxLength),
     name |-> JString(column.name),
     unbounded |-> JBoolean(column.unbounded),
     uniqueValues |-> JArray(spread(column.uniqueValues))]

\* the outcomes of fromJson: a ColumnMetadata, or the error thrown
Loaded(column) == [error |-> <<>>, column |-> <<column>>]
missingOrInvalidField(field) ==
    [error |-> <<"Missing or invalid type for field: ", field, ".">>,
     column |-> <<>>]

\* obj.uniqueValues.some((x) => typeof x !== "string")
someNotString_Never(arr) == FALSE
someNotString(arr) == \E i \in 1..Len(arr) : typeof(arr[i]) # "string"

\* new Set(obj.uniqueValues)
newSet(arr) == {arr[i].s : i \in 1..Len(arr)}

\* ColumnMetadata.fromJson(obj)
fromJson(o) ==
    IF typeof(o.maxLength) # "number"
    THEN missingOrInvalidField("maxLength")
    ELSE IF typeof(o.name) # "string"
    THEN missingOrInvalidField("name")
    ELSE IF typeof(o.unbounded) # "boolean"
    THEN missingOrInvalidField("unbounded")
    ELSE IF ~isArray(o.uniqueValues) \/ someNotString(o.uniqueValues.a)
    THEN missingOrInvalidField("uniqueValues")
    ELSE Loaded([maxLength |-> o.maxLength.n,
                 name |-> o.name.s,
                 unbounded |-> o.unbounded.b,
                 uniqueValues |-> newSet(o.uniqueValues.a)])

----------------------------------------------------------------------------
(* Column statistics: FileMetadata.create and its cache file *)

\* `${i}` of a non-negative integer
RECURSIVE decimal(_)
decimal(i) ==
    LET digit == <<"0", "1", "2", "3", "4", "5", "6", "7", "8", "9">>
    IN  IF i < 10 THEN <<digit[i + 1]>>
        ELSE decimal(i \div 10) \o <<digit[(i % 10) + 1]>>

\* `if (numberOfColumns)`: an omitted number is <<>>, a given n is <<n>>
given(numberOfColumns) == numberOfColumns # <<>> /\ numberOfColumns[1] # 0

\* the columns col_1..col_n
numberedColumns(n) ==
    [i \in 1..n |-> newColumnMetadata(<<"c", "o", "l", "_">> \o decimal(i))]

\* the columns named by the fields of the first line
headerColumns(colData) ==
    [i \in 1..Len(colData) |-> newColumnMetadata(colData[i])]

\* a line's leading fields added to the leading columns, whatever the number
\* of fields
observe_AnyLength(cols, colData, maxCardinality) ==
    [i \in 1..Len(cols) |->
        IF i <= Len(colData) THEN add(cols[i], colData[i], maxCardinality)
        ELSE cols[i]]

\* a line's fields added to the columns when there are as many of each
observe(cols, colData, maxCardinality) ==
    IF Len(colData) = Len(cols)
    THEN [i \in 1..Len(cols) |-> add(cols[i], colData[i], maxCardinality)]
    ELSE cols

\* the loop over the file's lines; cols is <<>> while `columns` is undefined
\* and <<columns>> afterwards
RECURSIVE scanLines(_, _, _)
scanLines(ls, cols, maxCardinality) ==
    IF ls = <<>> THEN cols
    ELSE LET colData == split(Head(ls), Delimiter)
         IN  IF cols = <<>>
             THEN scanLines(Tail(ls), <<headerColumns(colData)>>,
                            maxCardinality)
             ELSE scanLines(Tail(ls),
                            <<observe(cols[1], colData, maxCardinality)>>,
                            maxCardinality)

\* the columns create computes from the input file: `columns ?? []`
computeColumns(inp) ==
    LET cols == scanLines(inp.lines,
                          IF given(inp.numberOfColumns)
                          THEN <<numberedColumns(inp.numberOfColumns[1])>>
                          ELSE <<>>,
                          inp.maxCardinality)
    IN  IF cols = <<>> THEN <<>> ELSE cols[1]

\* FileMetadata.toJSON(): the elements of the array are column objects
fileToJSON(cols) ==
    [columns |-> JArray([i \in 1..Len(cols) |-> toJSON(cols[i])])]

\* the outcomes of a call that returns a FileMetadata, returns null or throws
Metadata(cols) == [threw |-> <<>>, columns |-> <<cols>>]
NoMetadata == [threw |-> <<>>, columns |-> <<>>]
Threw(error) == [threw |-> error, columns |-> <<>>]

\* FileMetadata.#fromJson(obj)
fileFromJson(o) ==
    IF ~isArray(o.columns)
    THEN Threw(missingOrInvalidField("columns").error)
    ELSE LET outcomes == [i \in 1..Len(o.columns.a) |->
                              fromJson(o.columns.a[i])]
             failed == {i \in 1..Len(outcomes) : outcomes[i].error # <<>>}
         IN  IF failed # {}
             THEN Threw(outcomes[CHOOSE i \in failed :
                                     \A j \in failed : i <= j].error)
             ELSE Metadata([i \in 1..Len(outcomes) |->
                                outcomes[i].column[1]])

\* the text of a file: not JSON at all, the JSON text `null`, or the JSON
\* text of an object whose `columns` property is the given value
FileText(kind, cols) == [kind |-> kind, columns |-> cols]

\* JSON.stringify(o, null, 2) of an object with a `columns` property
stringify(o) == FileText("object", o.columns)

\* the errors that are no missingOrInvalidField
SyntaxError == <<"SyntaxError">>
NullTypeError == <<"TypeError">>

\* JSON.parse(text) followed by FileMetadata.#fromJson(obj): JSON.parse
\* throws a SyntaxError for a text that is not JSON, and `obj.columns`
\* throws a TypeError when the text is `null`
parseAndLoad(text) ==
    IF text.kind = "not json" THEN Threw(SyntaxError)
    ELSE IF text.kind = "null" THEN Threw(NullTypeError)
    ELSE fileFromJson([columns |-> text.columns])

\* FileMetadata.#getCache(path); file is <<>> when the file does not exist
\* (ENOENT) and <<its text>> otherwise
getCache_Miss(file) == NoMetadata
getCache_ErrorIsMiss(file) ==
    IF file = <<>> THEN NoMetadata
    ELSE IF parseAndLoad(file[1]).threw # <<>> THEN NoMetadata
    ELSE parseAndLoad(file[1])
getCache(file) ==
    IF file = <<>> THEN NoMetadata ELSE parseAndLoad(file[1])

\* FileMetadata.#setCache(path, metadata): the new content of the file
setCache(cols) == <<stringify(fileToJSON(cols))>>

\* FileMetadata.create(input) with the cache file as it is: the outcome, the
\* cache file afterwards, and how many times the input's lines were read
create(inp, file) ==
    LET cachedResult == IF inp.metadataFilePath # <<>>
                        THEN getCache(file) ELSE NoMetadata
    IN  IF cachedResult # NoMetadata
        THEN [outcome |-> cachedResult, file |-> file, read |-> 0]
        ELSE LET cols == computeColumns(inp)
             IN  [outcome |-> Metadata(cols),
                  file |-> IF inp.metadataFilePath # <<>>
                           THEN setCache(cols) ELSE file,
                  read |-> 1]

----------------------------------------------------------------------------
(* The parts of the state a specification does not use stay as they start *)

ParserIdle ==
    lines = <<>> /\ before = <<>> /\ fed = <<>> /\ outs = <<>> /\ second = <<>>
AnchorsIdle == returned = <<>>
ColumnIdle == col = <<>> /\ seen = {} /\ cards = {}
JsonIdle == obj = <<>> /\ loaded = <<>>
CreateIdle == input = <<>> /\ cacheFile = <<>> /\ reads = 0 /\ created = <<>>
MetadataIdle == ColumnIdle /\ JsonIdle /\ CreateIdle

----------------------------------------------------------------------------
(* The parser specification: one parser, fed line after line *)

Init ==
    /\ columns \in ParserSchemas
    /\ lines = <<>>
    /\ before = <<>>
    /\ fed = <<>>
    /\ outs = <<>>
    /\ second = <<>>
    /\ AnchorsIdle /\ MetadataIdle

Parse(line) ==
    \E r \in {parse(lines, line)} :
        /\ before' = lines
        /\ lines' = r.lines
        /\ fed' = Append(fed, line)
        /\ outs' = Append(outs, [threw |-> r.threw, columns |-> r.columns,
                                 unprocessedLines |-> r.unprocessedLines])
        /\ UNCHANGED <<columns, second, returned, metadataVars>>

Next == \E line \in ParserLines : Len(fed) < MaxCalls /\ Parse(line)

Spec == Init /\ [][Next]_vars

(* The alignment specification: a new parser, given one line *)

InitAlign ==
    /\ columns \in AllSchemas
    /\ lines = <<>>
    /\ before = <<>>
    /\ fed = <<>>
    /\ outs = <<>>
    /\ second = <<>>
    /\ AnchorsIdle /\ MetadataIdle

ParseFresh(line) ==
    \E r \in {parse(<<>>, line)} :
        /\ before' = <<>>
        /\ lines' = r.lines
        /\ fed' = <<line>>
        /\ outs' = <<[threw |-> r.threw, columns |-> r.columns,
                      unprocessedLines |-> r.unprocessedLines]>>
        /\ UNCHANGED <<columns, second, returned, metadataVars>>

NextAlign == \E line \in AlignLines : fed = <<>> /\ ParseFresh(line)

SpecAlign == InitAlign /\ [][NextAlign]_vars

(* The pair specification: two parsers built over the same metadata, their *)
(* parse calls interleaved in any order                                    *)

PairLines == LinesOf(LineValues, 2)

\* `#lines: string[] = []` is an instance field: `this.#lines` of a parser
\* is its own array, whatever the other parser holds
thisLines_Static(own, others) == others
thisLines(own, others) == own

\* new LineParser(delimiter, metadata), twice
InitPair ==
    /\ columns \in ParserSchemas
    /\ lines = <<>>
    /\ before = <<>>
    /\ fed = <<>>
    /\ outs = <<>>
    /\ second = [lines |-> <<>>, fed |-> <<>>, outs |-> <<>>]
    /\ AnchorsIdle /\ MetadataIdle

\* parse(line) on the first parser
ParseFirst(line) ==
    \E r \in {parse(thisLines(lines, second.lines), line)} :
        /\ before' = lines
        /\ lines' = r.lines
        /\ fed' = Append(fed, line)
        /\ outs' = Append(outs, [threw |-> r.threw, columns |-> r.columns,
                                 unprocessedLines |-> r.unprocessedLines])
        /\ UNCHANGED <<columns, second, returned, metadataVars>>

\* parse(line) on the second parser
ParseSecond(line) ==
    \E r \in {parse(thisLines(second.lines, lines), line)} :
        /\ second' = [lines |-> r.lines,
                      fed |-> Append(second.fed, line),
                      outs |-> Append(second.outs,
                                      [threw |-> r.threw,
                                       columns |-> r.columns,
                                       unprocessedLines |->
                                           r.unprocessedLines])]
        /\ UNCHANGED <<columns, lines, before, fed, outs, returned,
                       metadataVars>>

NextPair ==
    \E line \in PairLines :
        /\ Len(fed) + Len(second.fed) < MaxPairCalls
        /\ (ParseFirst(line) \/ ParseSecond(line))

SpecPair == InitPair /\ [][NextPair]_vars

----------------------------------------------------------------------------
(* The anchor specification: getAnchorColumns applied to a column list *)

AnchorSchemas == SeqsUpTo(ColumnKinds, 0, MaxAnchorCols)

InitAnchors ==
    /\ columns \in AnchorSchemas
    /\ ParserIdle /\ AnchorsIdle /\ MetadataIdle

\* the call reads `columns` and builds a new list
GetAnchorColumns ==
    /\ returned = <<>>
    /\ returned' = <<getAnchorColumns(columns)>>
    /\ UNCHANGED <<parserVars, metadataVars>>

NextAnchors == GetAnchorColumns

SpecAnchors == InitAnchors /\ [][NextAnchors]_vars

----------------------------------------------------------------------------
(* The column specification: one ColumnMetadata, given value after value *)

AddValues == {<<>>, <<"a">>, <<"b">>, <<"a", "b">>}
ColumnNames == {<<>>, <<"h">>}
Cardinalities == 0..MaxCardinality

InitColumn ==
    /\ col \in {newColumnMetadata(name) : name \in ColumnNames}
    /\ seen = {}
    /\ cards = {}
    /\ columns = <<>>
    /\ ParserIdle /\ AnchorsIdle /\ JsonIdle /\ CreateIdle

Add(value, maxCardinality) ==
    /\ col' = add(col, value, maxCardinality)
    /\ seen' = seen \cup {value}
    /\ cards' = cards \cup {maxCardinality}
    /\ UNCHANGED <<parserVars, returned, obj, loaded, input, cacheFile,
                   reads, created>>

NextColumn ==
    \E value \in AddValues, maxCardinality \in Cardinalities :
        Add(value, maxCardinality)

SpecColumn == InitColumn /\ [][NextColumn]_vars

----------------------------------------------------------------------------
(* The JSON specification: fromJson applied to a parsed object, and to the *)
(* serialized form of the ColumnMetadata it returned                       *)

JsonValues ==
    { JAbsent, JNull, JNumber(2), JString(<<"a">>),
      JBoolean(TRUE), JBoolean(FALSE),
      JArray(<<>>),
      JArray(<<JString(<<"a">>), JString(<<"b">>)>>),
      JArray(<<JString(<<"a">>), JString(<<"a">>)>>),
      JArray(<<JString(<<"a">>), JNumber(1)>>) }
CardinalityValues == {JAbsent, JNull, JNumber(7), JString(<<"a">>)}

JsonObjects ==
    { [cardinality |-> c, maxLength |-> m, name |-> n, unbounded |-> u,
       uniqueValues |-> v] :
          c \in CardinalityValues, m \in JsonValues, n \in JsonValues,
          u \in JsonValues, v \in JsonValues }

InitJson ==
    /\ obj \in JsonObjects
    /\ loaded = <<>>
    /\ columns = <<>>
    /\ ParserIdle /\ AnchorsIdle /\ ColumnIdle /\ CreateIdle

\* ColumnMetadata.fromJson(obj)
FromJson ==
    /\ loaded = <<>>
    /\ loaded' = <<fromJson(obj)>>
    /\ UNCHANGED <<parserVars, returned, col, seen, cards, obj, input,
                   cacheFile, reads, created>>

\* x.toJSON() of the ColumnMetadata x that fromJson returned
ToJSON ==
    /\ col = <<>>
    /\ loaded # <<>>
    /\ loaded[1].column # <<>>
    /\ col' = loaded[1].column[1]
    /\ obj' = toJSON(col')
    /\ loaded' = <<>>
    /\ UNCHANGED <<parserVars, returned, seen, cards, input, cacheFile,
                   reads, created>>

NextJson == FromJson \/ ToJSON

SpecJson == InitJson /\ [][NextJson]_vars

----------------------------------------------------------------------------
(* The statistics specification: FileMetadata.create called again and      *)
(* again with the same input, the cache file missing at first              *)

FileLines ==
    {join(f, <<Delimiter>>) :
        f \in { <<<<"a">>, <<"b">>>>,
                <<<<"b">>, <<"b">>>>,
                <<<<"a", "b">>, <<"a">>>>,
                <<<<"a">>>>,
                <<<<"a">>, <<"b">>, <<"a">>>> }}
NumbersOfColumns == {<<>>} \cup {<<n>> : n \in 0..2}
MetadataFilePaths == {<<>>, <<"input-metadata.json">>}

CreateInputs ==
    [lines : SeqsUpTo(FileLines, 0, MaxFileLines),
     numberOfColumns : NumbersOfColumns,
     maxCardinality : Cardinalities,
     metadataFilePath : MetadataFilePaths]

InitCreate ==
    /\ input \in CreateInputs
    /\ cacheFile = <<>>
    /\ reads = 0
    /\ created = <<>>
    /\ columns = <<>>
    /\ ParserIdle /\ AnchorsIdle /\ ColumnIdle /\ JsonIdle

\* await FileMetadata.create(input)
Create ==
    \E r \in {create(input, cacheFile)} :
        /\ created' = Append(created, r.outcome)
        /\ cacheFile' = r.file
        /\ reads' = reads + r.read
        /\ UNCHANGED <<parserVars, returned, col, seen, cards, obj, loaded,
                       input>>

NextCreate == Len(created) < MaxCreates /\ Create

SpecCreate == InitCreate /\ [][NextCreate]_vars

----------------------------------------------------------------------------
(* The cache specification: FileMetadata.create called again and again     *)
(* with the same input, the cache file missing, well formed or malformed   *)
(* at first                                                                *)

\* serialized columns: a well formed one, one without a name, one whose
\* maxLength is a string
GoodEntry ==
    [cardinality |-> JNumber(1), maxLength |-> JNumber(1),
     name |-> JString(<<"a">>), unbounded |-> JBoolean(FALSE),
     uniqueValues |-> JArray(<<JString(<<"a">>)>>)]
NamelessEntry == [GoodEntry EXCEPT !.name = JAbsent]
LengthlessEntry == [GoodEntry EXCEPT !.maxLength = JString(<<"a">>)]

CacheTexts ==
    {FileText("not json", JAbsent), FileText("null", JAbsent)}
        \cup {FileText("object", c) :
                  c \in { JAbsent, JNull, JString(<<"a">>),
                          JArray(<<>>),
                          JArray(<<GoodEntry>>),
                          JArray(<<GoodEntry, GoodEntry>>),
                          JArray(<<GoodEntry, NamelessEntry>>),
                          JArray(<<LengthlessEntry, NamelessEntry>>) }}

CacheInputs ==
    [lines : SeqsUpTo(FileLines, 0, MaxCachedLines),
     numberOfColumns : NumbersOfColumns,
     maxCardinality : Cardinalities,
     metadataFilePath : MetadataFilePaths]

\* there is a cache file only at a metadataFilePath
InitCache ==
    /\ input \in CacheInputs
    /\ cacheFile \in IF input.metadataFilePath = <<>> THEN {<<>>}
                     ELSE {<<>>} \cup {<<text>> : text \in CacheTexts}
    /\ reads = 0
    /\ created = <<>>
    /\ columns = <<>>
    /\ ParserIdle /\ AnchorsIdle /\ ColumnIdle /\ JsonIdle

NextCache == Len(created) < MaxCreates /\ Create

SpecCache == InitCache /\ [][NextCache]_vars

----------------------------------------------------------------------------
(* The latest call *)

Called == fed # <<>>
Line == fed[Len(fed)]
Out == outs[Len(outs)]

\* the line's own fields, and its alignment on the first attempt
LineCols == split(Line, Delimiter)
FirstAttempt == tryParseColumns(LineCols)

\* #lines after the push of the latest call
Pending == Append(before, Line)
\* the alignment of the fields of pending[k..]
AlignFrom(pending, k) == tryParseColumns(flatMapSplit(slice(pending, k)))
\* the skip counts whose merged lines align
AligningSkips(pending) ==
    {k \in 0..(Len(pending) - 1) : AlignFrom(pending, k) # Null}
Smallest(S) == CHOOSE k \in S : \A j \in S : k <= j

AllUnbounded == \A i \in 1..Len(columns) : columns[i].unbounded
AllBounded == \A i \in 1..Len(columns) : ~columns[i].unbounded
Mixed == ~AllUnbounded /\ ~AllBounded

\* a line with one field per column, a member value at every bounded column
WellFormed(cols) ==
    /\ Len(cols) = Len(columns)
    /\ \A i \in 1..Len(columns) :
           ~columns[i].unbounded => cols[i] \in columns[i].uniqueValues

----------------------------------------------------------------------------
(* Claims *)

\* C1: a line that aligns on the first attempt returns its columns with the
\* whole pending buffer, as it was before the call, as unprocessedLines; the
\* buffer is empty afterwards and the line is not in it.
C1_FirstAttemptReturnsPending ==
    Called =>
        \A c \in {FirstAttempt} :
            c # Null =>
                /\ ~Out.threw
                /\ Out.columns = c
                /\ Out.unprocessedLines = before
                /\ lines = <<>>

\* C1 witness: a first-attempt success over two pending lines
C1_Witness ==
    /\ Called
    /\ Len(before) >= 2
    /\ FirstAttempt # Null
    /\ Out.unprocessedLines = before

\* C2: when the line fails alone and some merged suffix of the pending lines
\* aligns, the smallest aligning skip count k wins: the columns are the
\* alignment of pending[k..], unprocessedLines is pending[0..k) and the
\* buffer is empty afterwards.
C2_SmallestSkipCountWins ==
    (Called /\ FirstAttempt = Null /\ Len(Pending) >= 2) =>
        \A K \in {AligningSkips(Pending)} :
            K # {} =>
                \A k \in {Smallest(K)} :
                    /\ Out.columns = AlignFrom(Pending, k)
                    /\ Out.unprocessedLines = SubSeq(Pending, 1, k)
                    /\ lines = <<>>

\* C2 witness: two skip counts align and the smaller one was used
C2_Witness ==
    /\ Called
    /\ FirstAttempt = Null
    /\ Len(Pending) >= 3
    /\ Cardinality(AligningSkips(Pending)) >= 2
    /\ Out.columns = AlignFrom(Pending, 0)

\* C3: a call that returns columns = null returns no unprocessed lines and
\* leaves the buffer as it was before the call with the line appended.
C3_NullKeepsEveryLine ==
    (Called /\ ~Out.threw /\ Out.columns = Null) =>
        /\ Out.unprocessedLines = <<>>
        /\ lines = Append(before, Line)

\* C3 witness: a retry over every skip count failed
C3_Witness ==
    /\ Called
    /\ Out.columns = Null
    /\ Len(before) >= 2
    /\ lines = Append(before, Line)

\* C4: every successful alignment has exactly one defined value per
\* declared column.
C4_OneValuePerColumn ==
    (Called /\ ~Out.threw /\ Out.columns # Null) =>
        /\ Len(Out.columns) = Len(columns)
        /\ \A i \in 1..Len(Out.columns) : Out.columns[i] # Undefined

\* C5: a line with one field per column, and a member value at every
\* bounded column, is resolved on the first attempt to its own fields.
C5_WellFormedLineUnchanged ==
    Called =>
        \A cols \in {LineCols} :
            WellFormed(cols) => ~Out.threw /\ Out.columns = cols

\* C5 witness: a well-formed line of a mixed schema of three columns
C5_Witness ==
    /\ Called
    /\ Mixed
    /\ Len(columns) >= 3
    /\ WellFormed(LineCols)
    /\ Out.columns = LineCols

\* C6: with N >= 1 columns, all unbounded, every line of m >= N fields
\* aligns: the first N-1 values are the first N-1 fields and the last value
\* is fields N..m joined with the merge separator.
C6_UnboundedMergesRight ==
    (Called /\ AllUnbounded /\ Len(columns) >= 1) =>
        \A cols \in {LineCols} :
            Len(cols) >= Len(columns) =>
                Out.columns =
                    Append(SubSeq(cols, 1, Len(columns) - 1),
                           join(SubSeq(cols, Len(columns), Len(cols)),
                                MergeSeparator))

\* C6 witness: two excess fields merged into the last of two columns
C6_Witness ==
    /\ Called
    /\ AllUnbounded
    /\ Len(columns) >= 2
    /\ Len(LineCols) >= Len(columns) + 2
    /\ Out.columns # Null

\* C7: with every column bounded, a line aligns exactly when it has N
\* fields and field i is a member of column i's uniqueValues.
C7_BoundedAlignsIffExact ==
    (Called /\ AllBounded) =>
        /\ ~Out.threw
        /\ (Out.columns # Null) <=> WellFormed(LineCols)

\* C7 witness: more than N fields, the first N of them members, no alignment
C7_Witness ==
    /\ Called
    /\ AllBounded
    /\ Len(columns) >= 2
    /\ Len(LineCols) > Len(columns)
    /\ WellFormed(SubSeq(LineCols, 1, Len(columns)))
    /\ Out.columns = Null

\* The regrouping C8 describes, column by column: an unbounded column takes
\* the field at the cursor; a bounded column takes the first member field at
\* or after the cursor, the fields skipped on the way joining the value of
\* the unbounded column just before it; the fields left at the end join the
\* value of the last column when it is unbounded.
JoinedTo(acc, extra) ==
    [acc EXCEPT ![Len(acc)] = join(<<@>> \o extra, MergeSeparator)]

RECURSIVE Regroup(_, _, _, _)
Regroup(cols, p, c, acc) ==
    IF p > Len(columns)
    THEN IF c > Len(cols) THEN acc
         ELSE IF acc # <<>> /\ columns[Len(columns)].unbounded
         THEN JoinedTo(acc, SubSeq(cols, c, Len(cols)))
         ELSE Null
    ELSE IF columns[p].unbounded
    THEN IF c > Len(cols) THEN Null
         ELSE Regroup(cols, p + 1, c + 1, Append(acc, cols[c]))
    ELSE LET M == {j \in c..Len(cols) : cols[j] \in columns[p].uniqueValues}
         IN  IF M = {} THEN Null
             ELSE IF Smallest(M) = c
             THEN Regroup(cols, p + 1, c + 1, Append(acc, cols[c]))
             ELSE IF p = 1 \/ ~columns[p - 1].unbounded THEN Null
             ELSE Regroup(cols, p + 1, Smallest(M) + 1,
                      Append(JoinedTo(acc, SubSeq(cols, c, Smallest(M) - 1)),
                             cols[Smallest(M)]))

\* C8: in a mixed schema, the fields skipped before a bounded anchor join
\* the value of the unbounded column just before it, the fields left after
\* the trailing unbounded columns join the last value, and a bounded
\* column's value is the matching field itself.
C8_NoiseJoinsPrecedingColumn ==
    (Called /\ Mixed /\ ~Out.threw /\ Out.columns # Null) =>
        Out.columns = Regroup(LineCols, 1, 1, <<>>)

\* the alignment of the fields of the first j lines fed, flattened in order
PrefixAlign(j) == tryParseColumns(flatMapSplit(SubSeq(fed, 1, j)))
NoPrefixResolves == \A j \in 1..(Len(fed) - 1) : PrefixAlign(j) = Null
EarlierCallsNull == \A j \in 1..(Len(fed) - 1) : outs[j].columns = Null

\* C9 as stated: lines l1..ln fed to a new parser, no proper prefix
\* aligning and the fields of l1..ln aligning, give null for the first n-1
\* calls and that alignment, with no unprocessed lines, for the n-th.
C9_BrokenRowReassembled ==
    Len(fed) >= 2 =>
        \A full \in {PrefixAlign(Len(fed))} :
            (full # Null /\ NoPrefixResolves) =>
                /\ EarlierCallsNull
                /\ Out.columns = full
                /\ Out.unprocessedLines = <<>>

\* C9 amended: the same, provided the n-th line does not align on its own.
C9_BrokenRowReassembledUnlessLastAligns ==
    (Len(fed) >= 2 /\ FirstAttempt = Null) =>
        \A full \in {PrefixAlign(Len(fed))} :
            (full # Null /\ NoPrefixResolves) =>
                /\ EarlierCallsNull
                /\ Out.columns = full
                /\ Out.unprocessedLines = <<>>

\* C9 witness: a row broken over three lines, reassembled by the third call
C9_Witness ==
    /\ Len(fed) >= 3
    /\ NoPrefixResolves
    /\ FirstAttempt = Null
    /\ PrefixAlign(Len(fed)) # Null
    /\ Out.columns = PrefixAlign(Len(fed))
    /\ Out.unprocessedLines = <<>>

\* C10: no parse call throws; a failure to align is the result
\* {columns: null, unprocessedLines: []}.
C10_FailureIsNullResult ==
    \A i \in 1..Len(outs) :
        /\ ~outs[i].threw
        /\ outs[i].columns = Null => outs[i].unprocessedLines = <<>>

\* C10 witness: with no columns at all, a failed retry returned null
C10_Witness ==
    /\ Called
    /\ columns = <<>>
    /\ Len(lines) >= 2
    /\ ~Out.threw
    /\ Out.columns = Null

----------------------------------------------------------------------------
(* The anchors of a column list *)

AnchorsReturned == returned # <<>>
Anchors == returned[1]

\* the positions (1-based) of the bounded columns, and the k-th of them
BoundedAt == {i \in 1..Len(columns) : ~columns[i].unbounded}
NthBounded(k) ==
    CHOOSE i \in BoundedAt : Cardinality({j \in BoundedAt : j <= i}) = k
\* the length of the run of unbounded columns that ends just before position i
RunBefore(i) ==
    CHOOSE r \in 0..(i - 1) :
        /\ \A j \in (i - r)..(i - 1) : columns[j].unbounded
        /\ r = i - 1 \/ ~columns[i - r - 1].unbounded
EndsUnbounded == columns # <<>> /\ columns[Len(columns)].unbounded

\* C11: for a non-empty column list whose columns are all unbounded,
\* getAnchorColumns returns exactly one anchor, with previousColumns equal to
\* the number of columns and no metadata.
C11_AllUnboundedOneAnchor ==
    (AnchorsReturned /\ columns # <<>> /\ AllUnbounded)
        => Anchors = <<[previousColumns |-> Len(columns), metadata |-> <<>>]>>

C11_Witness ==
    /\ AnchorsReturned
    /\ Len(columns) = 3
    /\ AllUnbounded
    /\ Len(Anchors) = 1

\* C12: for a column list whose columns are all bounded, getAnchorColumns
\* returns one anchor per column, in column order, each with previousColumns 0
\* and the corresponding column as its metadata.
C12_AllBoundedAnchorPerColumn ==
    (AnchorsReturned /\ AllBounded)
        => /\ Len(Anchors) = Len(columns)
           /\ \A k \in 1..Len(columns) :
                  Anchors[k] = [previousColumns |-> 0,
                                metadata |-> <<columns[k]>>]

C12_Witness ==
    /\ AnchorsReturned
    /\ Len(columns) = 3
    /\ AllBounded
    /\ columns[1] # columns[2]
    /\ Len(Anchors) = 3

\* C13: for any column list, getAnchorColumns returns one anchor per bounded
\* column, in order, whose previousColumns is the length of the run of
\* unbounded columns immediately before it and whose metadata is that column,
\* followed by one anchor without metadata, carrying the length of the
\* trailing run, exactly when the last column is unbounded; the empty list
\* yields no anchor.  (The call only reads the list: GetAnchorColumns leaves
\* `columns` as it was.)
C13_AnchorsFollowBoundedColumns ==
    AnchorsReturned
        => /\ Len(Anchors) = Cardinality(BoundedAt)
                                + (IF EndsUnbounded THEN 1 ELSE 0)
           /\ \A k \in 1..Cardinality(BoundedAt) :
                  Anchors[k] = [previousColumns |-> RunBefore(NthBounded(k)),
                                metadata |-> <<columns[NthBounded(k)]>>]
           /\ EndsUnbounded
                  => Anchors[Len(Anchors)]
                         = [previousColumns |-> RunBefore(Len(columns) + 1),
                            metadata |-> <<>>]
           /\ columns = <<>> => Anchors = <<>>

C13_Witness ==
    /\ AnchorsReturned
    /\ Len(columns) = 4
    /\ columns[1].unbounded /\ ~columns[2].unbounded /\ ~columns[3].unbounded
    /\ columns[4].unbounded
    /\ Len(Anchors) = 3

----------------------------------------------------------------------------
(* A column under add calls *)

\* every add call so far was given the same maxCardinality
ConstantCardinality == Cardinality(cards) = 1
TheCardinality == CHOOSE m \in cards : TRUE

\* C14: add is a one-way latch: in every sequence of add calls on a new
\* column, with any values and any maxCardinality arguments, a column that is
\* unbounded before an add is unbounded after it and its uniqueValues is empty
\* after it; so the column turns from bounded to unbounded at most once.
C14_UnboundedIsLatched ==
    [][col.unbounded => (col'.unbounded /\ col'.uniqueValues = {})]_vars

\* an unbounded column that was given two more distinct values afterwards
C14_Witness ==
    /\ col.unbounded
    /\ col.uniqueValues = {}
    /\ cards = {1}
    /\ Cardinality(seen) = 4

\* C15: for a column built from new by add calls that all carry the same
\* maxCardinality, the column is unbounded exactly when the number of distinct
\* values given so far exceeds maxCardinality, and while it is bounded its
\* uniqueValues is the set of all values given so far (so at most
\* maxCardinality of them; exactly maxCardinality distinct values is bounded).
\* Giving a value again leaves the set of values given, hence unbounded and
\* uniqueValues, as they were.
C15_UnboundedIffCardinalityExceeded ==
    /\ cards = {} => (~col.unbounded /\ col.uniqueValues = {} /\ seen = {})
    /\ ConstantCardinality
           => /\ col.unbounded <=> Cardinality(seen) > TheCardinality
              /\ ~col.unbounded
                     => /\ col.uniqueValues = seen
                        /\ Cardinality(col.uniqueValues) <= TheCardinality

\* exactly maxCardinality distinct values, still bounded
C15_Witness ==
    /\ cards = {2}
    /\ Cardinality(seen) = 2
    /\ ~col.unbounded
    /\ col.uniqueValues = seen

----------------------------------------------------------------------------
(* Serialized columns *)

FromJsonReturned == loaded # <<>>
FromJsonOutcome == loaded[1]
\* the latest fromJson call was given x.toJSON(), x being `col`
RoundTrip == col # <<>> /\ FromJsonReturned

\* C16: for a ColumnMetadata x, fromJson(x.toJSON()) succeeds and returns a
\* ColumnMetadata with the same maxLength, name, unbounded and uniqueValues as
\* x, hence the same cardinality.
C16_RoundTripKeepsColumn ==
    RoundTrip
        => /\ FromJsonOutcome.error = <<>>
           /\ FromJsonOutcome.column # <<>>
           /\ \A y \in {FromJsonOutcome.column[1]} :
                  /\ y.maxLength = col.maxLength
                  /\ y.name = col.name
                  /\ y.unbounded = col.unbounded
                  /\ y.uniqueValues = col.uniqueValues
                  /\ cardinality(y) = cardinality(col)

C16_Witness ==
    /\ RoundTrip
    /\ ~col.unbounded
    /\ Cardinality(col.uniqueValues) = 2
    /\ col.maxLength = 2
    /\ FromJsonOutcome.column = <<col>>

\* the fields fromJson checks, in the order it checks them
CheckedFields == <<"maxLength", "name", "unbounded", "uniqueValues">>
\* a field that is absent or of the wrong type
Offending(o, field) ==
    IF field = "maxLength" THEN o.maxLength.t # "number"
    ELSE IF field = "name" THEN o.name.t # "string"
    ELSE IF field = "unbounded" THEN o.unbounded.t # "boolean"
    ELSE \/ o.uniqueValues.t # "array"
         \/ \E i \in 1..Len(o.uniqueValues.a) :
                o.uniqueValues.a[i].t # "string"
OffendingAt(o) == {k \in 1..Len(CheckedFields) : Offending(o, CheckedFields[k])}
FirstOffending(o) == CheckedFields[Smallest(OffendingAt(o))]

\* C17: fromJson fails with the error that names the first offending field in
\* the order maxLength, name, unbounded, uniqueValues, a field offending when
\* it is absent or of the wrong type (maxLength not a number, name not a
\* string, unbounded not a boolean, uniqueValues not an array or an array with
\* an element that is not a string); no ColumnMetadata is produced then, and
\* one is produced when no field offends.
C17_FirstOffendingFieldNamed ==
    FromJsonReturned
        => IF OffendingAt(obj) # {}
           THEN /\ FromJsonOutcome.column = <<>>
                /\ FromJsonOutcome.error
                       = <<"Missing or invalid type for field: ",
                           FirstOffending(obj), ".">>
           ELSE /\ FromJsonOutcome.error = <<>>
                /\ FromJsonOutcome.column # <<>>

\* name and uniqueValues both offend: name is the one named
C17_Witness ==
    /\ FromJsonReturned
    /\ obj.maxLength = JNumber(2)
    /\ obj.name = JAbsent
    /\ obj.unbounded = JBoolean(TRUE)
    /\ obj.uniqueValues = JArray(<<JString(<<"a">>), JNumber(1)>>)
    /\ FromJsonOutcome.error # <<>>
    /\ FromJsonOutcome.error[2] = "name"

\* the cardinality derived from the other fields of a serialized column
Derived(unbounded, values) ==
    IF unbounded THEN JNull ELSE JNumber(Cardinality(values))

\* C18: the cardinality of a ColumnMetadata is derived: null when unbounded
\* is true, the number of elements of uniqueValues otherwise; the serialized
\* form carries that derived value; and fromJson ignores the cardinality field
\* of the object it is given, the cardinality of its result being recomputed
\* from unbounded and uniqueValues.
C18_CardinalityIsDerived ==
    /\ col # <<>>
           => obj.cardinality = Derived(col.unbounded, col.uniqueValues)
    /\ (FromJsonReturned /\ FromJsonOutcome.column # <<>>)
           => \A y \in {FromJsonOutcome.column[1]} :
                  /\ cardinality(y) = Derived(y.unbounded, y.uniqueValues)
                  /\ toJSON(y).cardinality
                         = Derived(obj.unbounded.b,
                                   {obj.uniqueValues.a[i].s :
                                        i \in 1..Len(obj.uniqueValues.a)})

\* the object says 7, the column is unbounded: the cardinality is null
C18_Witness ==
    /\ col = <<>>
    /\ FromJsonReturned
    /\ FromJsonOutcome.column # <<>>
    /\ obj.cardinality = JNumber(7)
    /\ obj.unbounded = JBoolean(TRUE)
    /\ cardinality(FromJsonOutcome.column[1]) = JNull

----------------------------------------------------------------------------
(* The statistics of a file *)

CachePathGiven == input.metadataFilePath # <<>>

\* C19: with a metadataFilePath and no cache file, the first create call
\* computes the statistics from the input's lines and writes the cache file,
\* and a later call with the same input returns columns equal to the first
\* call's, field by field, without reading the lines again: the lines are
\* read exactly once over the calls.
C19_SecondCreateReadsCache ==
    (CachePathGiven /\ created # <<>>)
        => /\ created[1] = Metadata(computeColumns(input))
           /\ cacheFile # <<>>
           /\ reads = 1
           /\ \A k \in 2..Len(created) :
                  /\ created[k].threw = <<>>
                  /\ created[k].columns # <<>>
                  /\ Len(created[k].columns[1]) = Len(created[1].columns[1])
                  /\ \A i \in 1..Len(created[1].columns[1]) :
                         \A x \in {created[1].columns[1][i]},
                            y \in {created[k].columns[1][i]} :
                             /\ y.maxLength = x.maxLength
                             /\ y.name = x.name
                             /\ y.unbounded = x.unbounded
                             /\ y.uniqueValues = x.uniqueValues

\* the second call returned an unbounded and a two-valued bounded column
C19_Witness ==
    /\ CachePathGiven
    /\ Len(created) = 2
    /\ reads = 1
    /\ created[2].columns # <<>>
    /\ Len(created[2].columns[1]) = 2
    /\ created[2].columns[1][1].unbounded
    /\ ~created[2].columns[1][2].unbounded
    /\ Cardinality(created[2].columns[1][2].uniqueValues) = 2

\* the columns with the given names after the given lines were observed as
\* data, one after the other
Observed(names, data) ==
    scanLines(data,
              <<[i \in 1..Len(names) |-> newColumnMetadata(names[i])]>>,
              input.maxCardinality)[1]
NumberedNames(n) == [i \in 1..n |-> <<"c", "o", "l", "_">> \o decimal(i)]

\* C20: when numberOfColumns is not given, the first line only defines the
\* columns, one per field and named by the field, and is not observed as
\* data; when numberOfColumns = n is given, the columns are col_1..col_n and
\* the first line is observed as data like every other line.
C20_HeaderOnlyWhenNoNumberOfColumns ==
    created # <<>>
        => created[1].columns
               = << IF input.numberOfColumns = <<>>
                    THEN IF input.lines = <<>> THEN <<>>
                         ELSE Observed(split(input.lines[1], Delimiter),
                                       Tail(input.lines))
                    ELSE Observed(NumberedNames(input.numberOfColumns[1]),
                                  input.lines) >>

----------------------------------------------------------------------------
(* The scan for the anchors, followed over the fields of a line *)

\* the 0-based indices, from `from` on, of the fields that are members of a
\* bounded column's uniqueValues
MembersFrom(cols, from, column) ==
    {j \in from..(Len(cols) - 1) : cols[j + 1] \in column.uniqueValues}

\* whether the loop over the anchors `as`, its cursor at c, comes to a bounded
\* anchor with previousColumns = 0 whose scan skips the field at the cursor
RECURSIVE ZeroAnchorSkips(_, _, _)
ZeroAnchorSkips(as, cols, c) ==
    IF as = <<>> \/ c + Head(as).previousColumns > Len(cols) THEN FALSE
    ELSE IF Head(as).metadata = <<>> THEN FALSE
    ELSE LET at == c + Head(as).previousColumns
             M == MembersFrom(cols, at, Head(as).metadata[1])
         IN  IF /\ Head(as).previousColumns = 0
                /\ at < Len(cols)
                /\ at \notin M
             THEN TRUE
             ELSE IF M = {} THEN FALSE
             ELSE ZeroAnchorSkips(Tail(as), cols, Smallest(M) + 1)

\* C21: the alignment fails whenever the scan for a bounded anchor with
\* previousColumns = 0 skips at least one field, wherever that anchor stands
\* in the anchor list, also after earlier anchors gave output values.
C21_SkipWithoutPreviousColumnFails ==
    (Called /\ ZeroAnchorSkips(anchorColumns, LineCols, 0))
        => ~Out.threw /\ Out.columns = Null

\* the second anchor skips a field after the first one gave two values
C21_Witness ==
    /\ Called
    /\ columns = <<Unbounded, BoundedA, BoundedB>>
    /\ LineCols = <<<<"x">>, <<"a">>, <<"a">>, <<"b">>>>
    /\ ZeroAnchorSkips(anchorColumns, LineCols, 0)
    /\ ~ZeroAnchorSkips(SubSeq(anchorColumns, 1, 1), LineCols, 0)
    /\ Out.columns = Null

\* whether the fields align when every bounded anchor is bound to the first
\* member field at or after the cursor, and to no other
RECURSIVE GreedyAligns(_, _, _)
GreedyAligns(as, cols, c) ==
    IF as = <<>> THEN c = Len(cols)
    ELSE IF c + Head(as).previousColumns > Len(cols) THEN FALSE
    ELSE IF Head(as).metadata = <<>> THEN TRUE
    ELSE LET at == c + Head(as).previousColumns
             M == MembersFrom(cols, at, Head(as).metadata[1])
         IN  /\ M # {}
             /\ Smallest(M) = at \/ Head(as).previousColumns > 0
             /\ GreedyAligns(Tail(as), cols, Smallest(M) + 1)

\* the ways of cutting m fields into Len(columns) consecutive non-empty
\* groups: the 1-based index of the last field of every group
Cuts(m) ==
    {e \in [1..Len(columns) -> 1..m] :
        /\ IF columns = <<>> THEN m = 0 ELSE e[Len(columns)] = m
        /\ \A i \in 1..(Len(columns) - 1) : e[i] < e[i + 1]}
Group(cols, e, i) == SubSeq(cols, IF i = 1 THEN 1 ELSE e[i - 1] + 1, e[i])
\* some binding gives every bounded column one member field and every
\* unbounded column one field or more
SomeBindingAligns(cols) ==
    \E e \in Cuts(Len(cols)) :
        \A i \in 1..Len(columns) :
            ~columns[i].unbounded
                => /\ Len(Group(cols, e, i)) = 1
                   /\ Group(cols, e, i)[1] \in columns[i].uniqueValues

\* C22: the scan for a bounded anchor is greedy and never backtracks: the
\* fields align exactly when they do with every bounded anchor bound to the
\* first member field at or after the cursor; when that choice fails, the
\* result is null even if a later member field would give an alignment.
C22_FirstMatchWinsNoBacktracking ==
    Called
        => /\ ~Out.threw
           /\ Out.columns # Null <=> /\ Len(LineCols) >= Len(columns)
                                     /\ GreedyAligns(anchorColumns, LineCols, 0)

\* the first member field fails, the second one would have aligned
C22_Witness ==
    /\ Called
    /\ Out.columns = Null
    /\ ~GreedyAligns(anchorColumns, LineCols, 0)
    /\ SomeBindingAligns(LineCols)
    /\ Len(columns) = 3
    /\ Len(LineCols) = 4
    /\ LineCols[2] \in columns[2].uniqueValues

----------------------------------------------------------------------------
(* The lines of a parser, over all its calls *)

\* the calls that returned columns, and the latest of them before call i
Resolved == {i \in 1..Len(outs) : outs[i].columns # Null}
LastResolvedBefore(i) ==
    IF \E j \in Resolved : j < i
    THEN CHOOSE j \in Resolved :
             j < i /\ \A h \in Resolved : h < i => h <= j
    ELSE 0
\* the lines fed since the latest resolved call before call i, call i's included
FedSince(i) == SubSeq(fed, LastResolvedBefore(i) + 1, i)

\* C23: line conservation: after any sequence of parse calls every line fed
\* is accounted for exactly once and in input order: the lines fed up to a
\* resolved call, since the one before, are that call's unprocessedLines
\* followed by the lines whose fields gave its columns (at least one); a call
\* that returns null returns no line; the lines fed after the latest resolved
\* call are the pending buffer.
C23_EveryLineAccountedOnce ==
    /\ \A i \in 1..Len(outs) :
           IF outs[i].columns = Null
           THEN outs[i].unprocessedLines = <<>>
           ELSE \A seg \in {FedSince(i)} :
                  \A n \in {Len(outs[i].unprocessedLines)} :
                    /\ n < Len(seg)
                    /\ outs[i].unprocessedLines = SubSeq(seg, 1, n)
                    /\ outs[i].columns
                           = tryParseColumns(
                                 flatMapSplit(SubSeq(seg, n + 1, Len(seg))))
    /\ lines = SubSeq(fed, LastResolvedBefore(Len(fed) + 1) + 1, Len(fed))

\* one line unprocessed and the two lines after it merged
C23_Witness ==
    /\ Len(fed) >= 3
    /\ outs[Len(fed)].columns # Null
    /\ Len(outs[Len(fed)].unprocessedLines) = 1
    /\ outs[Len(fed)].unprocessedLines = <<fed[1]>>
    /\ lines = <<>>

\* C24: between parse calls the pending buffer is irreducible: for every k
\* in 0..pending.length-1 the fields of pending[k..] do not align, and the
\* buffer is empty right after every call that returned columns.
C24_PendingIsIrreducible ==
    /\ \A k \in 0..(Len(lines) - 1) : AlignFrom(lines, k) = Null
    /\ (Called /\ Out.columns # Null) => lines = <<>>

\* three lines pending, none of their suffixes aligning
C24_Witness ==
    /\ Len(lines) = 3
    /\ columns # <<>>
    /\ \A k \in 0..2 : AlignFrom(lines, k) = Null

\* C25: a successful merge uses a suffix of the pending lines that ends with
\* the line just passed and has two lines or more: the winning skip count is
\* at most pending.length - 2, the line alone does not align when tried
\* again, and no call returns the line it was given in its unprocessedLines.
C25_MergeNeedsTwoLines ==
    Called
        => /\ Len(Out.unprocessedLines) <= Len(before)
           /\ Out.unprocessedLines
                  = SubSeq(before, 1, Len(Out.unprocessedLines))
           /\ (FirstAttempt = Null /\ Out.columns # Null)
                  => /\ Len(Out.unprocessedLines) <= Len(Pending) - 2
                     /\ AlignFrom(Pending, Len(Pending) - 1) = Null
                     /\ Out.columns
                            = AlignFrom(Pending, Len(Out.unprocessedLines))

\* the merge of the last two of three pending lines
C25_Witness ==
    /\ Called
    /\ FirstAttempt = Null
    /\ Out.columns # Null
    /\ Len(Pending) = 3
    /\ Len(Out.unprocessedLines) = 1

----------------------------------------------------------------------------
(* The values of a resolved row *)

Aligned == Called /\ ~Out.threw /\ Out.columns # Null

\* C26: field conservation inside a resolved row: on every successful
\* alignment of the fields f1..fm, the output is a cut of f1..fm into
\* consecutive non-empty groups, one per declared column and in order, each
\* output value being the fields of its group joined by the merge separator.
C26_OutputIsACutOfTheFields ==
    Aligned
        => \E e \in Cuts(Len(LineCols)) :
               Out.columns = [i \in 1..Len(columns) |->
                                  join(Group(LineCols, e, i), MergeSeparator)]

\* C27: on every successful alignment, the output value at the position of
\* a bounded column is a single raw field that is a member of that column's
\* uniqueValues: no other field is ever joined to a bounded column's value.
C27_BoundedValueIsAMemberField ==
    Aligned
        => \A i \in 1..Len(columns) :
               ~columns[i].unbounded
                   => /\ At(Out.columns, i - 1) \in columns[i].uniqueValues
                      /\ \E j \in 1..Len(LineCols) :
                             LineCols[j] = At(Out.columns, i - 1)

----------------------------------------------------------------------------
(* The shape of an anchor list *)

WithMetadata == {k \in 1..Len(Anchors) : Anchors[k].metadata # <<>>}
WithoutMetadata == {k \in 1..Len(Anchors) : Anchors[k].metadata = <<>>}

\* C28: every anchor returned by getAnchorColumns that carries metadata
\* carries a bounded column; at most one anchor has no metadata, it is the
\* last one, and its previousColumns is 1 or more.  So the scan of the parser
\* never meets an anchor whose column is unbounded.
C28_AnchorMetadataIsBounded ==
    AnchorsReturned
        => /\ \A k \in WithMetadata : ~Anchors[k].metadata[1].unbounded
           /\ Cardinality(WithoutMetadata) <= 1
           /\ \A k \in WithoutMetadata :
                  /\ k = Len(Anchors)
                  /\ Anchors[k].previousColumns >= 1

\* two bounded anchors and the trailing anchor of two unbounded columns
C28_Witness ==
    /\ AnchorsReturned
    /\ Cardinality(WithMetadata) = 2
    /\ WithoutMetadata = {3}
    /\ Anchors[3].previousColumns = 2

\* the columns the first k anchors stand for
RECURSIVE Covered(_)
Covered(k) ==
    IF k = 0 THEN 0
    ELSE Covered(k - 1) + Anchors[k].previousColumns
                        + (IF Anchors[k].metadata # <<>> THEN 1 ELSE 0)

\* C29: the anchors returned by getAnchorColumns cover every column exactly
\* once: the sum of their previousColumns plus the number of anchors with
\* metadata is the number of columns.
C29_AnchorsCoverEveryColumn ==
    AnchorsReturned => Covered(Len(Anchors)) = Len(columns)

\* unbounded, bounded, unbounded, unbounded: 1 + 1 + 2 columns
C29_Witness ==
    /\ AnchorsReturned
    /\ Len(columns) = 4
    /\ Len(Anchors) = 2
    /\ Anchors[1].previousColumns = 1
    /\ Anchors[2].previousColumns = 2
    /\ Covered(2) = 4

----------------------------------------------------------------------------
(* The longest value of a column *)

\* the largest length among the values given to add so far, 0 if none
LongestSeen ==
    IF seen = {} THEN 0
    ELSE CHOOSE n \in {Len(v) : v \in seen} : \A v \in seen : Len(v) <= n

\* C30: add updates maxLength unconditionally: after any sequence of add
\* calls maxLength is the largest length among all the values ever added, 0
\* if none, the values added after the column became unbounded included; so
\* maxLength never decreases.
C30_MaxLengthIsLongestValueAdded ==
    col.maxLength = LongestSeen

\* unbounded from the first add on (maxCardinality 0), longer values after it
C30_Witness ==
    /\ cards = {0}
    /\ col.unbounded
    /\ seen = AddValues
    /\ col.maxLength = 2

----------------------------------------------------------------------------
(* Unbounded columns and their values *)

\* the ColumnMetadata objects of the state: the one given values with add or
\* serialized, and the one the latest fromJson call returned
ColumnObjects ==
    (IF col = <<>> THEN {} ELSE {col})
        \cup (IF FromJsonReturned /\ FromJsonOutcome.column # <<>>
              THEN {FromJsonOutcome.column[1]} ELSE {})

\* C31: every ColumnMetadata with unbounded = true has an empty uniqueValues
\* set, whether it was built by add calls or returned by fromJson for a
\* cache entry.
C31_UnboundedHasNoValues ==
    \A x \in ColumnObjects : x.unbounded => x.uniqueValues = {}

----------------------------------------------------------------------------
(* The cache file *)

\* the entries of the cache text's columns array that fromJson rejects
Rejected(text) ==
    {i \in 1..Len(text.columns.a) : fromJson(text.columns.a[i]).error # <<>>}

\* the cache file exists and is unparsable, or its columns property is no
\* array, or fromJson rejects one of the array's entries
Malformed(file) ==
    /\ file # <<>>
    /\ \/ file[1].kind # "object"
       \/ ~isArray(file[1].columns)
       \/ Rejected(file[1]) # {}

\* the error a malformed cache text makes the load fail with
MalformedError(text) ==
    IF text.kind = "not json" THEN SyntaxError
    ELSE IF text.kind = "null" THEN NullTypeError
    ELSE IF ~isArray(text.columns)
    THEN <<"Missing or invalid type for field: ", "columns", ".">>
    ELSE fromJson(text.columns.a[Smallest(Rejected(text))]).error

\* C32: when the cache file at metadataFilePath is missing, create computes
\* the statistics from the input's lines, reading them once, and writes them
\* to the cache file; when the cache file exists but is malformed, create
\* fails with the error of the load, does not read the input's lines and
\* leaves the cache file as it is.
C32_CacheLoadOutcomes ==
    [][ /\ (CachePathGiven /\ cacheFile = <<>>)
            => /\ created'
                   = Append(created, Metadata(computeColumns(input)))
               /\ reads' = reads + 1
               /\ cacheFile'
                   = <<stringify(fileToJSON(computeColumns(input)))>>
        /\ Malformed(cacheFile)
            => /\ created'
                   = Append(created, Threw(MalformedError(cacheFile[1])))
               /\ reads' = reads
               /\ cacheFile' = cacheFile ]_vars

\* two calls failed on the nameless second entry of the cache, the input
\* file having lines
C32_Witness ==
    /\ CachePathGiven
    /\ input.lines # <<>>
    /\ Malformed(cacheFile)
    /\ cacheFile[1].kind = "object"
    /\ isArray(cacheFile[1].columns)
    /\ Rejected(cacheFile[1]) = {2}
    /\ Len(created) = 2
    /\ created[2].threw = <<"Missing or invalid type for field: ", "name", ".">>
    /\ created[2].columns = <<>>
    /\ reads = 0

----------------------------------------------------------------------------
(* The lines the statistics are made of *)

FirstCreated == created[1].columns[1]

\* the lines after the one that defined the columns, if one did
DataLines ==
    IF given(input.numberOfColumns) \/ input.lines = <<>> THEN input.lines
    ELSE Tail(input.lines)

\* the line splits into as many fields as there are columns
Contributes(line) == Len(split(line, Delimiter)) = Len(FirstCreated)

\* a column after the i-th field of each of the lines was added to it
RECURSIVE AddedFrom(_, _, _)
AddedFrom(column, ls, i) ==
    IF ls = <<>> THEN column
    ELSE AddedFrom(add(column, split(Head(ls), Delimiter)[i],
                       input.maxCardinality),
                   Tail(ls), i)

\* C33: during the pre-pass a data line contributes to the statistics only
\* when it splits into exactly as many fields as there are columns, its
\* field i then being added to column i; any other line leaves maxLength,
\* unbounded and uniqueValues of every column unchanged: each column is what
\* its fields of the contributing lines, added in order, make of a new one.
C33_OnlyMatchingLinesContribute ==
    created # <<>>
        => \A i \in 1..Len(FirstCreated) :
               FirstCreated[i]
                   = AddedFrom(newColumnMetadata(FirstCreated[i].name),
                               SelectSeq(DataLines, Contributes), i)

\* two columns, a line of three fields, one of two and one of one: only the
\* second line shows in the statistics
C33_Witness ==
    /\ created # <<>>
    /\ input.numberOfColumns = <<2>>
    /\ input.maxCardinality = 2
    /\ input.lines = << <<"a", "|", "b", "|", "a">>,
                        <<"a", "b", "|", "a">>,
                        <<"a">> >>
    /\ Len(FirstCreated) = 2
    /\ FirstCreated[1].maxLength = 2
    /\ FirstCreated[1].uniqueValues = {<<"a", "b">>}
    /\ FirstCreated[2].uniqueValues = {<<"a">>}

----------------------------------------------------------------------------
(* Two parsers *)

\* the outcomes and the pending lines of a new parser given the lines, one
\* call after the other, and nothing else happening
RECURSIVE Alone(_, _, _)
Alone(pending, ls, results) ==
    IF ls = <<>> THEN [lines |-> pending, outs |-> results]
    ELSE CHOOSE after \in
             { Alone(r.lines, Tail(ls),
                     Append(results,
                            [threw |-> r.threw, columns |-> r.columns,
                             unprocessedLines |-> r.unprocessedLines])) :
                   r \in {parse(pending, Head(ls))} } : TRUE

AsIfAlone ==
    /\ \A r \in {Alone(<<>>, fed, <<>>)} : outs = r.outs /\ lines = r.lines
    /\ \A r \in {Alone(<<>>, second.fed, <<>>)} :
           second.outs = r.outs /\ second.lines = r.lines

====
